---- MODULE Spec2Model ----
(***************************************************************************)
(* Storage-backed reactive property binding (storage.ts): storageFactory   *)
(* loads a value from a browser Storage, wraps it in a BehaviorSubject and *)
(* writes every emitted value back to the Storage.                         *)
(*                                                                         *)
(* Strings are sequences of one-character (or one-token) strings, so that  *)
(* key concatenation, JSON.stringify and JSON.parse are computed, not      *)
(* assumed.  Application values are tagged tuples:                         *)
(*   <<"null">>  <<"str", chars>>  <<"num", n>>  <<"nan">>                 *)
(*   <<"date", ms>>  <<"invaliddate">>  <<"obj", v>>   (the object {date: v}) *)
(***************************************************************************)
EXTENDS Integers, Sequences, FiniteSets, TLC

\* ---------------------------------------------------------------- bounds
\* calls (constructions, publishes, subscriptions, clears) in one behaviour
MaxOps == 4
\* subject.next frames the call stack has room for (at least 2: next(null)
\* re-enters next(fallbackState) once)
StackDepth == 3

\* ------------------------------------------------------------- constants
STORAGE_KEYS_PREFIX == <<"r", "c", "a", "_">>

Storages == {"local", "session"}

\* the decorated properties (subjects) and the downstream observers of a run
Bindings == {1, 2}
Observers == {1}

\* the instances of the decorated class a run may create
Instances == {1, 2}

\* ----------------------------------------------------------------- values
NULL == <<"null">>
NAN == <<"nan">>
INVALID_DATE == <<"invaliddate">>
Str(s) == <<"str", s>>
Num(n) == <<"num", n>>
Date(ms) == <<"date", ms>>
Obj(v) == <<"obj", v>>

Tag(v) == v[1]

\* `value == null` of the write-back handler (loose equality: null or undefined)
IsNullish(v) == Tag(v) = "null"

Digit(n) == IF n = 0 THEN "0" ELSE IF n = 1 THEN "1" ELSE IF n = 2 THEN "2" ELSE "3"

IsDigit(c) == c \in {"0", "1", "2", "3"}

DigitValue(c) == IF c = "0" THEN 0 ELSE IF c = "1" THEN 1 ELSE IF c = "2" THEN 2 ELSE 3

\* Date.prototype.toISOString, abstracted to the characters "T" ms "Z"
ToISOString(ms) == <<"T", Digit(ms), "Z">>

IsISOString(s) == Len(s) = 3 /\ s[1] = "T" /\ IsDigit(s[2]) /\ s[3] = "Z"

NullText == <<"n", "u", "l", "l">>

\* JSON.stringify on the values of the model.  A Date is written through its
\* toJSON (an ISO string), an invalid Date and NaN as null.
RECURSIVE Stringify(_)
Stringify(v) ==
    CASE Tag(v) = "null" -> NullText
      [] Tag(v) = "nan" -> NullText
      [] Tag(v) = "invaliddate" -> NullText
      [] Tag(v) = "str" -> <<"\"">> \o v[2] \o <<"\"">>
      [] Tag(v) = "num" -> <<Digit(v[2])>>
      [] Tag(v) = "date" -> <<"\"">> \o ToISOString(v[2]) \o <<"\"">>
      [] Tag(v) = "obj" -> <<"{", "date:">> \o Stringify(v[2]) \o <<"}">>

SYNTAX_ERROR == <<"SyntaxError">>

Middle(s) == SubSeq(s, 2, Len(s) - 1)

\* JSON.parse on stored text: the parsed value, or SYNTAX_ERROR when the text
\* is not JSON.  A quoted ISO string parses to a string, never to a Date.
RECURSIVE Parse(_)
Parse(s) ==
    IF s = NullText THEN NULL
    ELSE IF Len(s) = 1 /\ IsDigit(s[1]) THEN Num(DigitValue(s[1]))
    ELSE IF Len(s) >= 2 /\ s[1] = "\"" /\ s[Len(s)] = "\""
              /\ \A i \in 2..(Len(s) - 1) : s[i] \notin {"\"", "{", "}"}
         THEN Str(Middle(s))
    ELSE IF Len(s) >= 4 /\ s[1] = "{" /\ s[2] = "date:" /\ s[Len(s)] = "}"
         THEN LET inner == Parse(SubSeq(s, 3, Len(s) - 1))
              IN IF inner = SYNTAX_ERROR THEN SYNTAX_ERROR ELSE Obj(inner)
    ELSE SYNTAX_ERROR

\* --------------------------------------------------------------- converter
\* converter: "none" (no JsonConverter passed) or "date", the converter of the
\* README and of the tests: toJson {date: Date} -> {date: number} and back.
Converters == {"none", "date"}

TYPE_ERROR == <<"TypeError">>

\* toJson: (object) => ({ date: object.date.getTime() })
ToJson(v) ==
    IF Tag(v) = "obj" /\ Tag(v[2]) = "date" THEN Obj(Num(v[2][2]))
    ELSE IF Tag(v) = "obj" /\ Tag(v[2]) = "invaliddate" THEN Obj(NAN)
    ELSE TYPE_ERROR

\* new Date(x) for a parsed JSON value x (undefined when the field is missing)
NewDate(x) ==
    CASE Tag(x) = "num" -> Date(x[2])
      [] Tag(x) = "null" -> Date(0)
      [] Tag(x) = "str" -> IF IsISOString(x[2]) THEN Date(DigitValue(x[2][2]))
                           ELSE INVALID_DATE
      [] OTHER -> INVALID_DATE

\* fromJson: (object) => ({ date: new Date(object.date) })
FromJson(p) ==
    IF Tag(p) = "null" THEN TYPE_ERROR
    ELSE IF Tag(p) = "obj" THEN Obj(NewDate(p[2]))
    ELSE Obj(INVALID_DATE)

\* converter.toJson(value) when a converter was passed, the value itself otherwise
Encode(conv, v) == IF conv = "date" THEN ToJson(v) ELSE v

\* ---------------------------------------------------------------- storage
\* A Storage is a function from the keys that have an entry to their text.
EmptyStorage == [k \in {} |-> <<>>]

HasItem(st, k) == k \in DOMAIN st

\* a setItem that drops the text
SetItemDropsText(st, k, text) == st

SetItem(st, k, text) == [x \in (DOMAIN st) \cup {k} |-> IF x = k THEN text ELSE st[x]]

\* a removeItem that leaves the entry in place
RemoveItemKeeps(st, k) == st

RemoveItem(st, k) == [x \in (DOMAIN st) \ {k} |-> st[x]]

\* a factory that drops the caller's key
FullKeyPrefixOnly(keyPrefix, storageKey) == keyPrefix

\* keyPrefix + storageKey
FullKey(keyPrefix, storageKey) == keyPrefix \o storageKey

\* ------------------------------------------------------------------ inputs
Keys == {<<>>, <<"k">>, <<"j">>}

FullKeys == {FullKey(STORAGE_KEYS_PREFIX, k) : k \in Keys \ {<<>>}}

\* AppType of a binding: string | null, or { date: Date } | null
Families == {"string", "date"}

\* (AppType, converter, fallbackState) as the decorators are applied in the
\* tests, the README and the doc comments, and a null fallback
Configs ==
    {[family |-> "string", conv |-> "none", fallback |-> Str(<<"d">>)],
     [family |-> "string", conv |-> "none", fallback |-> NULL],
     [family |-> "date", conv |-> "date", fallback |-> Obj(Date(0))],
     [family |-> "date", conv |-> "none", fallback |-> Obj(Date(0))]}

\* (storage, storageKey) of the decorated properties: two keys in one Storage,
\* one key in both Storages, and the empty key
Targets ==
    {<<"local", <<"k">>>>, <<"local", <<"j">>>>, <<"session", <<"k">>>>, <<"local", <<>>>>}

\* the values a caller can pass to next() on a BehaviorSubject<AppType | null>
ValuesOf(family) ==
    IF family = "string" THEN {NULL, Str(<<"x">>)}
    ELSE {NULL} \cup {Obj(Date(1))}

\* text another page, an earlier session or other code left in a Storage
PresetTexts ==
    {<<>>, Stringify(Str(<<"x">>)), NullText, <<"{">>, Stringify(Obj(Num(1)))}

\* ------------------------------------------------------------------- state
VARIABLES
    store,       \* [Storages -> Storage]: localStorage and sessionStorage
    binding,     \* [Bindings -> record]: the subjects storageFactory returned
    observers,   \* [Observers -> binding it subscribed to, 0 when not subscribed]
    received,    \* [Observers -> sequence of values its next handler was called with]
    became,      \* [Observers -> sequence of values subject._value took since it subscribed]
    lastWriter,  \* [Storages -> [FullKeys -> binding whose call last changed the entry, 0: not a binding]]
    lastOp,      \* the call that returned last, with the Storage calls it made
    nops,        \* number of calls made so far
    instances    \* the instances of the decorated class created so far

vars == <<store, binding, observers, received, became, lastWriter, lastOp, nops, instances>>

\* live: storageFactory returned this subject; failed: the last write-back of
\* the subject threw; value: subject._value; the rest is the handler's closure
NoBinding ==
    [live |-> FALSE, storage |-> "local", key |-> <<>>, family |-> "string",
     conv |-> "none", fallback |-> NULL, value |-> NULL, failed |-> FALSE]

\* emitted: the values the write-back handler was called with during the call
Op(op, b, storage, key, conv, v, result, emitted, calls, errors) ==
    [op |-> op, b |-> b, storage |-> storage, key |-> key, conv |-> conv, v |-> v,
     result |-> result, emitted |-> emitted, calls |-> calls, errors |-> errors]

Call(fn, storage, k, ok) == [fn |-> fn, storage |-> storage, key |-> k, ok |-> ok]

\* one subject shared by all properties: every observer hears every publish
SubscribersOfAny(b) == {o \in Observers : observers[o] # 0}

\* the downstream observers of the subject of binding b
Subscribers(b) == {o \in Observers : observers[o] = b}

\* --------------------------------------------------- subject and write-back
\* A world w is what one synchronous call chain reads and changes:
\*   w.store, w.writer   the two Storages and who changed each entry last
\*   w.value             subject._value
\*   w.received          what each downstream observer was called with
\*   w.trace             the values subject._value took, in order
\*   w.calls             the Storage calls made
\*   w.errors            errors thrown inside the write-back handler, which the
\*                       subscriber wrapper of rxjs 7 catches and reports later
\* c is the closure of the handler: b, storage, keyPrefix, key, fallback, conv,
\* subs (the downstream observers of the subject) and quota (setItem throws).
\* d is the number of subject.next frames the call stack still has room for.
RECURSIVE SubjectNext(_, _, _, _), WriteBack(_, _, _, _)

\* the write-back passing the value itself to JSON.stringify, converter or not
StoredTextNoConverter(conv, value) == Stringify(value)

\* the text setItem is called with: JSON.stringify(converter.toJson(value)) with
\* a converter, JSON.stringify(value) without
StoredText(conv, value) == Stringify(Encode(conv, value))

\* the handler re-publishing the null it was called with
RepublishedNull(c) == NULL

\* the value the handler re-publishes after removing the entry
Republished(c) == c.fallback

\* the handler passed to subject.subscribe
WriteBack(w, c, value, d) ==
    LET k == FullKey(c.keyPrefix, c.key)
    IN  IF IsNullish(value)
        THEN LET w1 == [w EXCEPT !.store[c.storage] = RemoveItem(@, k),
                                 !.writer[c.storage][k] = c.b,
                                 !.calls = Append(@, Call("removeItem", c.storage, k, TRUE))]
             IN SubjectNext(w1, c, Republished(c), d)
        ELSE LET jsonValue == Encode(c.conv, value)
             IN  IF jsonValue = TYPE_ERROR
                 THEN [w EXCEPT !.errors = Append(@, "TypeError")]
                 ELSE IF c.quota
                 THEN [w EXCEPT !.calls = Append(@, Call("setItem", c.storage, k, FALSE)),
                                !.errors = Append(@, "QuotaExceededError")]
                 ELSE [w EXCEPT !.store[c.storage] = SetItem(@, k, StoredText(c.conv, value)),
                                !.writer[c.storage][k] = c.b,
                                !.calls = Append(@, Call("setItem", c.storage, k, TRUE))]

\* a subject that keeps the new value only when the write-back did not throw
SubjectNextCommitsAfterWrite(w, c, value, d) ==
    IF d = 0
    THEN [w EXCEPT !.errors = Append(@, "RangeError")]
    ELSE LET w1 == [w EXCEPT !.trace = Append(@, value)]
             w2 == WriteBack(w1, c, value, d - 1)
             w3 == IF w2.errors = w.errors /\ w2.trace = w1.trace
                   THEN [w2 EXCEPT !.value = value] ELSE w2
         IN  [w3 EXCEPT !.received =
                 [o \in Observers |-> IF o \in c.subs THEN Append(@[o], value) ELSE @[o]]]

\* BehaviorSubject.next: store the value, then call every observer in the order
\* of subscription, the write-back handler first
SubjectNext(w, c, value, d) ==
    IF d = 0
    THEN [w EXCEPT !.errors = Append(@, "RangeError")]
    ELSE LET w1 == [w EXCEPT !.value = value, !.trace = Append(@, value)]
             w2 == WriteBack(w1, c, value, d - 1)
         IN  [w2 EXCEPT !.received =
                 [o \in Observers |-> IF o \in c.subs THEN Append(@[o], value) ELSE @[o]]]

World(v) ==
    [store |-> store, writer |-> lastWriter, value |-> v, received |-> received,
     trace |-> <<>>, calls |-> <<>>, errors |-> <<>>]

\* both decorators handing localStorage to the handler
ClosureAlwaysLocal(b, storage, key, fallback, conv, quota) ==
    [b |-> b, storage |-> "local", keyPrefix |-> STORAGE_KEYS_PREFIX, key |-> key,
     fallback |-> fallback, conv |-> conv, subs |-> Subscribers(b), quota |-> quota]

Closure(b, storage, key, fallback, conv, quota) ==
    [b |-> b, storage |-> storage, keyPrefix |-> STORAGE_KEYS_PREFIX, key |-> key,
     fallback |-> fallback, conv |-> conv, subs |-> Subscribers(b), quota |-> quota]

\* ------------------------------------------------------------ construction
\* a factory that does not validate its key
InvalidKeyNever(storageKey) == FALSE

\* `if (!storageKey)`: the empty string is falsy
InvalidKey(storageKey) == storageKey = <<>>

\* a factory that never takes the stored text
TruthyNever(st, k) == FALSE

\* `storedString && ...`: an absent entry (null) and the empty string are falsy
Truthy(st, k) == HasItem(st, k) /\ st[k] # <<>>

\* a factory that starts from null, not from the fallback, when nothing is stored
InitialValueNullWhenAbsent(st, k, conv, fallbackState) ==
    IF HasItem(st, k) /\ st[k] # <<>> /\ conv # "none"
    THEN LET parsedValue == Parse(st[k])
         IN IF parsedValue = SYNTAX_ERROR THEN SYNTAX_ERROR ELSE FromJson(parsedValue)
    ELSE IF HasItem(st, k) /\ st[k] # <<>>
    THEN Parse(st[k])
    ELSE NULL

\* a factory that hands the parsed value to the subject without fromJson
InitialValueSkipsFromJson(st, k, conv, fallbackState) ==
    IF HasItem(st, k) /\ st[k] # <<>> THEN Parse(st[k]) ELSE fallbackState

\* a factory that recovers from a decode error with the fallback
InitialValueFallbackOnError(st, k, conv, fallbackState) ==
    LET parsedValue == IF HasItem(st, k) /\ st[k] # <<>> THEN Parse(st[k]) ELSE SYNTAX_ERROR
        value == IF parsedValue = SYNTAX_ERROR \/ conv = "none" THEN parsedValue
                 ELSE FromJson(parsedValue)
    IN  IF value = SYNTAX_ERROR \/ value = TYPE_ERROR THEN fallbackState ELSE value

\* initialValue of storageFactory, or the error JSON.parse or fromJson throws
InitialValue(st, k, conv, fallbackState) ==
    IF Truthy(st, k) /\ conv # "none"
    THEN LET parsedValue == Parse(st[k])
         IN IF parsedValue = SYNTAX_ERROR THEN SYNTAX_ERROR ELSE FromJson(parsedValue)
    ELSE IF Truthy(st, k)
    THEN Parse(st[k])
    ELSE fallbackState

Thrown(v) == v = SYNTAX_ERROR \/ v = TYPE_ERROR

FreeSlots == {b \in Bindings : ~binding[b].live}

NewSlot == CHOOSE b \in FreeSlots : \A x \in FreeSlots : b <= x

Init ==
    /\ \E preset \in [Storages -> {EmptyStorage}]
                     \cup {[s \in Storages |->
                              IF s = ps THEN SetItem(EmptyStorage, FullKey(STORAGE_KEYS_PREFIX, <<"k">>), t)
                              ELSE EmptyStorage] : ps \in {"local"}, t \in PresetTexts} :
          store = preset
    /\ binding = [b \in Bindings |-> NoBinding]
    /\ observers = [o \in Observers |-> 0]
    /\ received = [o \in Observers |-> <<>>]
    /\ became = [o \in Observers |-> <<>>]
    /\ lastWriter = [s \in Storages |-> [k \in FullKeys |-> 0]]
    /\ lastOp = Op("init", 0, "local", <<>>, "none", NULL, "ok", <<>>, <<>>, <<>>)
    /\ nops = 0
    /\ instances = {}

\* storageFactory(storage, STORAGE_KEYS_PREFIX)(storageKey, fallbackState, converter),
\* as the LocalStorage and SessionStorage decorators call it
Construct(storage, storageKey, cfg) ==
    /\ nops < MaxOps
    /\ FreeSlots # {}
    /\ nops' = nops + 1
    /\ UNCHANGED <<observers, received, became, instances>>
    /\ IF InvalidKey(storageKey)
       THEN /\ lastOp' = Op("construct", 0, storage, storageKey, cfg.conv, NULL, "Error",
                             <<>>, <<>>, <<>>)
            /\ UNCHANGED <<store, binding, lastWriter>>
       ELSE LET b == NewSlot
                k == FullKey(STORAGE_KEYS_PREFIX, storageKey)
                getItem == Call("getItem", storage, k, TRUE)
                initialValue == InitialValue(store[storage], k, cfg.conv, cfg.fallback)
            IN  IF Thrown(initialValue)
                THEN /\ lastOp' = Op("construct", 0, storage, storageKey, cfg.conv, NULL,
                                     initialValue[1], <<>>, <<getItem>>, <<>>)
                     /\ UNCHANGED <<store, binding, lastWriter>>
                ELSE LET c == Closure(b, storage, storageKey, cfg.fallback, cfg.conv, FALSE)
                         w == WriteBack(World(initialValue), c, initialValue, StackDepth)
                     IN  /\ store' = w.store
                         /\ lastWriter' = w.writer
                         /\ binding' = [binding EXCEPT ![b] =
                                [live |-> TRUE, storage |-> storage, key |-> storageKey,
                                 family |-> cfg.family, conv |-> cfg.conv,
                                 fallback |-> cfg.fallback, value |-> w.value,
                                 failed |-> w.errors # <<>>]]
                         /\ lastOp' = Op("construct", b, storage, storageKey, cfg.conv, initialValue,
                                         "ok", <<initialValue>> \o w.trace,
                                         <<getItem>> \o w.calls, w.errors)

\* an instance whose property reads a subject of its own
GetterOwnSubject(i, p) == IF i <= 1 THEN p ELSE 3 - p

\* the getter the decorator defines on the class prototype: read through any
\* instance i (0: through the prototype itself), property p is the one subject
\* the decorator created for p
Getter(i, p) == p

\* instance.property.next(value) by the owner of the property
Publish(i, p, value, quota) ==
    /\ nops < MaxOps
    /\ i = 0 \/ i \in instances
    /\ binding[Getter(i, p)].live
    /\ value \in ValuesOf(binding[Getter(i, p)].family)
    /\ LET b == Getter(i, p)
           r == binding[b]
           c == Closure(b, r.storage, r.key, r.fallback, r.conv, quota)
           w == SubjectNext(World(r.value), c, value, StackDepth)
       IN  /\ store' = w.store
           /\ lastWriter' = w.writer
           /\ binding' = [binding EXCEPT ![b].value = w.value, ![b].failed = w.errors # <<>>]
           /\ received' = w.received
           /\ became' = [o \in Observers |->
                            IF o \in c.subs THEN became[o] \o w.trace ELSE became[o]]
           /\ lastOp' = Op("publish", p, r.storage, r.key, r.conv, value, "ok",
                          w.trace, w.calls, w.errors)
    /\ nops' = nops + 1
    /\ UNCHANGED <<observers, instances>>

\* a plain Subject, which calls a new observer with nothing
ReplayNothing(value) == <<>>

\* what a new observer of a BehaviorSubject is called with on subscribing
Replay(value) == <<value>>

\* subject.subscribe(observer) by a downstream observer: BehaviorSubject adds
\* the observer and calls it with the current value
Subscribe(o, b) ==
    /\ nops < MaxOps
    /\ binding[b].live
    /\ observers[o] = 0
    /\ observers' = [observers EXCEPT ![o] = b]
    /\ received' = [received EXCEPT ![o] = Replay(binding[b].value)]
    /\ became' = [became EXCEPT ![o] = <<binding[b].value>>]
    /\ lastOp' = Op("subscribe", b, binding[b].storage, binding[b].key, binding[b].conv, NULL,
                   "ok", <<>>, <<>>, <<>>)
    /\ nops' = nops + 1
    /\ UNCHANGED <<store, binding, lastWriter, instances>>

\* localStorage.clear(); sessionStorage.clear() by other code (the tests do it
\* before each test, with the bindings of the decorated class still alive)
Clear ==
    /\ nops < MaxOps
    /\ store' = [s \in Storages |-> EmptyStorage]
    /\ lastWriter' = [s \in Storages |-> [k \in FullKeys |-> 0]]
    /\ lastOp' = Op("clear", 0, "local", <<>>, "none", NULL, "ok", <<>>, <<>>, <<>>)
    /\ nops' = nops + 1
    /\ UNCHANGED <<binding, observers, received, became, instances>>

\* new TestClass(): the class has no constructor code and the decorators ran
\* when the class was defined, so the new object only inherits the getters
NewInstance ==
    /\ instances # Instances
    /\ instances' = instances \cup {CHOOSE i \in Instances \ instances :
                                        \A x \in Instances \ instances : i <= x}
    /\ lastOp' = Op("new", 0, "local", <<>>, "none", NULL, "ok", <<>>, <<>>, <<>>)
    /\ UNCHANGED <<store, binding, observers, received, became, lastWriter, nops>>

\* the calls made on the subjects themselves, with no instance of the class
Next ==
    \/ \E t \in Targets, cfg \in Configs : Construct(t[1], t[2], cfg)
    \/ \E b \in Bindings, value \in ValuesOf("string") \cup ValuesOf("date"), quota \in BOOLEAN :
          Publish(0, b, value, quota)
    \/ \E o \in Observers, b \in Bindings : Subscribe(o, b)
    \/ Clear

Spec == Init /\ [][Next]_vars

\* the decorators applied to the properties of one class (one Storage key per
\* property), instances of the class created at any time, and the properties
\* used through the instances
InstanceTargets == {<<"local", <<"j">>>>, <<"session", <<"k">>>>}

NextInstances ==
    \/ \E t \in InstanceTargets, cfg \in Configs : Construct(t[1], t[2], cfg)
    \/ NewInstance
    \/ \E i \in Instances, p \in Bindings, value \in ValuesOf("string") \cup ValuesOf("date") :
          Publish(i, p, value, FALSE)
    \/ \E o \in Observers, b \in Bindings : Subscribe(o, b)
    \/ Clear

SpecInstances == Init /\ [][NextInstances]_vars

\* ================================================================== claims
\* the binding the last call was made on, its Storage and its namespaced key
LastBinding == binding[lastOp.b]

KeyOf(r) == STORAGE_KEYS_PREFIX \o r.key

EntryPresent(r) == KeyOf(r) \in DOMAIN store[r.storage]

Entry(r) == store[r.storage][KeyOf(r)]

Published == lastOp.op = "publish"

\* C1: once a publish of a non-null value v has returned, the container's
\* current value is v and, unless setItem threw, the entry at prefix+key is
\* JSON.stringify(v) without a converter and JSON.stringify(toJson(v)) with
\* one, in localStorage and in sessionStorage alike.
C1_PublishWritesBack ==
    (Published /\ ~IsNullish(lastOp.v)) =>
        /\ LastBinding.value = lastOp.v
        /\ lastOp.errors = <<>> =>
              /\ EntryPresent(LastBinding)
              /\ Entry(LastBinding) =
                    IF LastBinding.conv = "date" THEN Stringify(ToJson(lastOp.v))
                    ELSE Stringify(lastOp.v)

C1_Witness ==
    /\ Published
    /\ lastOp.v = Obj(Date(1))
    /\ lastOp.errors = <<>>
    /\ LastBinding.conv = "date"
    /\ LastBinding.storage = "session"
    /\ EntryPresent(LastBinding)
    /\ Entry(LastBinding) = <<"{", "date:", "1", "}">>

\* C2: once publish(null) has returned on a binding with a non-null fallback,
\* with or without a converter and whatever was published before, the
\* container's current value is the fallback, never null.
C2_NullResetsToFallback ==
    (Published /\ IsNullish(lastOp.v) /\ ~IsNullish(LastBinding.fallback)) =>
        /\ LastBinding.value = LastBinding.fallback
        /\ ~IsNullish(LastBinding.value)

C2_Witness ==
    /\ Published
    /\ IsNullish(lastOp.v)
    /\ LastBinding.conv = "date"
    /\ LastBinding.value = Obj(Date(0))
    /\ nops >= 3

\* C3 as stated: once publish(null) has returned on a binding with a non-null
\* fallback, the store has no entry at prefix+key.
C3_Original ==
    (Published /\ IsNullish(lastOp.v) /\ ~IsNullish(LastBinding.fallback)) =>
        ~EntryPresent(LastBinding)

\* C3 amended: publish(null) on a binding with a non-null fallback removes the
\* entry at prefix+key and then, re-publishing the fallback in the same call,
\* writes the serialized fallback there: when the call returns the entry holds
\* the serialized fallback, and is absent only if that setItem threw.
C3_NullRemovesThenWritesFallback ==
    (Published /\ IsNullish(lastOp.v) /\ ~IsNullish(LastBinding.fallback)) =>
        /\ Len(lastOp.calls) = 2
        /\ lastOp.calls[1] = Call("removeItem", LastBinding.storage, KeyOf(LastBinding), TRUE)
        /\ lastOp.calls[2].fn = "setItem"
        /\ lastOp.calls[2].key = KeyOf(LastBinding)
        /\ IF lastOp.calls[2].ok
           THEN /\ EntryPresent(LastBinding)
                /\ Entry(LastBinding) =
                      IF LastBinding.conv = "date" THEN Stringify(ToJson(LastBinding.fallback))
                      ELSE Stringify(LastBinding.fallback)
           ELSE ~EntryPresent(LastBinding)

C3_Witness ==
    /\ Published
    /\ IsNullish(lastOp.v)
    /\ LastBinding.key = <<"k">>
    /\ LastBinding.fallback = Str(<<"d">>)
    /\ EntryPresent(LastBinding)
    /\ Entry(LastBinding) = <<"\"", "d", "\"">>
    /\ nops >= 3

\* a step that is a call of storageFactory which returned a subject
Constructs == nops' = nops + 1 /\ lastOp'.op = "construct" /\ lastOp'.result = "ok"

NewBinding == binding'[lastOp'.b]

\* no entry at prefix+key before the call
AbsentBefore == (STORAGE_KEYS_PREFIX \o lastOp'.key) \notin DOMAIN store[lastOp'.storage]

\* C4 as stated: constructing a binding with a non-empty key and a non-null
\* fallback against a store without an entry at prefix+key yields the fallback
\* as current value and only reads the store: nothing is written or removed.
C4_Original ==
    [][(Constructs /\ AbsentBefore /\ ~IsNullish(NewBinding.fallback)) =>
          /\ NewBinding.value = NewBinding.fallback
          /\ store' = store]_vars

\* C4 amended: such a construction yields the fallback as current value, reads
\* the entry once and then writes the serialized fallback to prefix+key (the
\* write-back handler runs on the initial value); every other entry of both
\* Storages is left as it was.
C4_ConstructWritesFallback ==
    [][(Constructs /\ AbsentBefore /\ ~IsNullish(NewBinding.fallback)) =>
          LET s == lastOp'.storage
              k == STORAGE_KEYS_PREFIX \o lastOp'.key
              text == IF NewBinding.conv = "date" THEN Stringify(ToJson(NewBinding.fallback))
                      ELSE Stringify(NewBinding.fallback)
          IN  /\ NewBinding.value = NewBinding.fallback
              /\ lastOp'.calls = <<Call("getItem", s, k, TRUE), Call("setItem", s, k, TRUE)>>
              /\ store' = [store EXCEPT ![s] =
                              [x \in (DOMAIN store[s]) \cup {k} |->
                                  IF x = k THEN text ELSE store[s][x]]]]_vars

C4_Witness ==
    /\ lastOp.op = "construct"
    /\ lastOp.result = "ok"
    /\ lastOp.key = <<"j">>
    /\ LastBinding.value = Str(<<"d">>)
    /\ EntryPresent(LastBinding)
    /\ Entry(LastBinding) = <<"\"", "d", "\"">>
    /\ Len(lastOp.calls) = 2
    /\ lastOp.calls[1].fn = "getItem"

\* a value the serialization is reversible on: JSON.parse gives back what
\* JSON.stringify was given, and fromJson inverts toJson
Encodable(conv, v) ==
    LET json == IF conv = "date" THEN ToJson(v) ELSE v
    IN  /\ json # TYPE_ERROR
        /\ Parse(Stringify(json)) = json
        /\ conv = "date" => FromJson(json) = v

\* a publish of a non-null value that was written, followed at once by the
\* construction of a binding on the same Storage and key with the same converter
RoundTrip ==
    /\ lastOp.op = "publish"
    /\ ~IsNullish(lastOp.v)
    /\ lastOp.errors = <<>>
    /\ nops' = nops + 1
    /\ lastOp'.op = "construct"
    /\ lastOp'.storage = lastOp.storage
    /\ lastOp'.key = lastOp.key
    /\ lastOp'.conv = lastOp.conv

\* C5: round trip: publishing a non-null encodable value v and then
\* constructing a fresh binding on the same Storage, prefix and key, with the
\* same converter if any, yields a container whose initial value is v.
C5_RoundTrip ==
    [][(RoundTrip /\ Encodable(lastOp.conv, lastOp.v)) =>
          /\ lastOp'.result = "ok"
          /\ lastOp'.v = lastOp.v
          /\ NewBinding.value = lastOp.v]_vars

C5_Witness ==
    /\ lastOp.op = "construct"
    /\ lastOp.result = "ok"
    /\ lastOp.b = 2
    /\ lastOp.key = <<"j">>
    /\ lastOp.conv = "date"
    /\ binding[1].storage = binding[2].storage
    /\ binding[1].key = <<"j">>
    /\ binding[1].conv = "date"
    /\ binding[1].value = Obj(Date(1))
    /\ binding[2].value = Obj(Date(1))
    /\ lastOp.v = Obj(Date(1))

\* C6: constructing a binding with the empty string as key fails with the
\* configuration error, makes no Storage call (no getItem, setItem or
\* removeItem) and creates no container.
C6_EmptyKeyFails ==
    [][(nops' = nops + 1 /\ lastOp'.op = "construct" /\ lastOp'.key = <<>>) =>
          /\ lastOp'.result = "Error"
          /\ lastOp'.calls = <<>>
          /\ lastOp'.b = 0
          /\ UNCHANGED <<store, binding, observers, received, became, lastWriter>>]_vars

C6_Witness ==
    /\ lastOp.op = "construct"
    /\ lastOp.key = <<>>
    /\ lastOp.result = "Error"
    /\ \E b \in Bindings : binding[b].live

\* C7: a publish through one binding, null or not, leaves alone every other
\* binding that has another key or another Storage: its store entry (present
\* or not, and its text) and its current value are unchanged.
C7_NoInterference ==
    [][(nops' = nops + 1 /\ lastOp'.op = "publish") =>
          \A b2 \in Bindings \ {lastOp'.b} :
              LET r == binding[lastOp'.b]
                  r2 == binding[b2]
                  k2 == STORAGE_KEYS_PREFIX \o r2.key
              IN  (r2.live /\ (r2.storage # r.storage \/ r2.key # r.key)) =>
                     /\ binding'[b2] = r2
                     /\ (k2 \in DOMAIN store'[r2.storage]) = (k2 \in DOMAIN store[r2.storage])
                     /\ k2 \in DOMAIN store[r2.storage] =>
                           store'[r2.storage][k2] = store[r2.storage][k2]]_vars

C7_Witness ==
    /\ Published
    /\ IsNullish(lastOp.v)
    /\ lastOp.b = 1
    /\ binding[2].live
    /\ binding[1].storage = "session"
    /\ binding[2].storage = "local"
    /\ binding[1].key = binding[2].key
    /\ binding[2].value = Str(<<"x">>)
    /\ EntryPresent(binding[2])
    /\ Entry(binding[2]) = <<"\"", "x", "\"">>
    /\ EntryPresent(binding[1])
    /\ Entry(binding[1]) = <<"\"", "d", "\"">>

\* C8: the values delivered to a downstream observer are the values the
\* container's current value took since it subscribed, in the same order, for
\* every sequence of publishes, publishes of null included.
C8_DeliveredInPublishOrder ==
    \A o \in Observers : observers[o] # 0 => received[o] = became[o]

\* C9: replay-latest: an observer that subscribes between two calls is called
\* at once with the container's current value (the fallback or the loaded value
\* before any publish, the latest value after), and everything delivered later
\* comes after it.
C9_ReplayLatest ==
    [][\A o \in Observers :
          /\ (observers[o] = 0 /\ observers'[o] # 0) =>
                received'[o] = <<binding[observers'[o]].value>>
          /\ observers[o] # 0 =>
                /\ Len(received'[o]) >= Len(received[o])
                /\ SubSeq(received'[o], 1, Len(received[o])) = received[o]]_vars

C9_Witness ==
    /\ observers[1] # 0
    /\ binding[observers[1]].key = <<"j">>
    /\ Len(received[1]) >= 2
    /\ received[1][1] = Str(<<"x">>)
    /\ Published

\* C10: in every state between calls, a binding with a non-null fallback whose
\* entry was last changed by the binding itself and whose last write-back did
\* not throw has its entry present and equal to the serialized current value
\* (JSON.stringify(toJson(value)) with a converter).
C10_Synchronized ==
    \A b \in Bindings :
        LET r == binding[b]
        IN  (/\ r.live
             /\ ~IsNullish(r.fallback)
             /\ ~r.failed
             /\ lastWriter[r.storage][KeyOf(r)] = b) =>
                /\ EntryPresent(r)
                /\ Entry(r) = IF r.conv = "date" THEN Stringify(ToJson(r.value))
                              ELSE Stringify(r.value)

C10_Witness ==
    /\ Published
    /\ lastOp.v = Obj(Date(1))
    /\ LastBinding.conv = "date"
    /\ ~LastBinding.failed
    /\ lastWriter[LastBinding.storage][KeyOf(LastBinding)] = lastOp.b
    /\ observers[1] = lastOp.b
    /\ Len(received[1]) = 4
    /\ received[1][3] = NULL
    /\ LastBinding.value = Obj(Date(1))
    /\ EntryPresent(LastBinding)
    /\ Entry(LastBinding) = <<"{", "date:", "1", "}">>


\* C11: null handling terminates whatever the fallback, a null fallback
\* included: no construction and no publish re-enters subject.next until the
\* call stack is exhausted (a null re-published after the reset is a terminal
\* no-op).
C11_NullHandlingTerminates ==
    \A i \in DOMAIN lastOp.errors : lastOp.errors[i] # "RangeError"

\* C12: once a publish of null has returned, the last value each observer of
\* the container received is the container's current value: nothing, the null
\* in particular, is delivered after the fallback of the reset.
C12_NothingAfterReset ==
    (Published /\ IsNullish(lastOp.v) /\ ~IsNullish(LastBinding.fallback)) =>
        \A o \in Observers :
            observers[o] = lastOp.b =>
                received[o][Len(received[o])] = LastBinding.value

\* C13: every value published to a container (the fallback re-published by a
\* reset included) causes exactly one Storage call, made before the publish
\* call returns: removeItem for null, setItem for any other value, at
\* prefix+key of the binding's own Storage; unless setItem throws that call is
\* the one mutation, and no other entry of either Storage is touched.
C13_OneMutationPerValue ==
    [][(nops' = nops + 1 /\ lastOp'.op = "publish") =>
          LET r == binding[lastOp'.b]
              k == STORAGE_KEYS_PREFIX \o r.key
              calls == lastOp'.calls
              emitted == lastOp'.emitted
          IN  /\ Len(calls) = Len(emitted)
              /\ emitted[1] = lastOp'.v
              /\ \A i \in DOMAIN calls :
                    /\ calls[i].storage = r.storage
                    /\ calls[i].key = k
                    /\ calls[i].fn = IF IsNullish(emitted[i]) THEN "removeItem" ELSE "setItem"
                    /\ calls[i].fn = "removeItem" => calls[i].ok
              /\ \A s \in Storages :
                    \A x \in (DOMAIN store[s]) \cup (DOMAIN store'[s]) :
                        (s # r.storage \/ x # k) =>
                            /\ x \in DOMAIN store[s]
                            /\ x \in DOMAIN store'[s]
                            /\ store'[s][x] = store[s][x]]_vars

C13_Witness ==
    /\ Published
    /\ IsNullish(lastOp.v)
    /\ lastOp.emitted = <<NULL, Str(<<"d">>)>>
    /\ Len(lastOp.calls) = 2
    /\ lastOp.calls[1].fn = "removeItem"
    /\ lastOp.calls[2].fn = "setItem"
    /\ lastOp.calls[2].ok
    /\ \E b \in Bindings \ {lastOp.b} : binding[b].live /\ EntryPresent(binding[b])

\* a step that is a call of storageFactory with a valid key, returning or throwing
ConstructCall == nops' = nops + 1 /\ lastOp'.op = "construct" /\ lastOp'.key # <<>>

\* the text at prefix+key before the call, when there is an entry
PresentBefore == (STORAGE_KEYS_PREFIX \o lastOp'.key) \in DOMAIN store[lastOp'.storage]

TextBefore == store[lastOp'.storage][STORAGE_KEYS_PREFIX \o lastOp'.key]

\* JSON.parse of a text, then fromJson when a converter is given: the value, or
\* the error thrown
Decoded(conv, text) ==
    LET parsed == Parse(text)
    IN  IF parsed = SYNTAX_ERROR \/ conv = "none" THEN parsed ELSE FromJson(parsed)

Undecodable(conv, text) ==
    Decoded(conv, text) = SYNTAX_ERROR \/ Decoded(conv, text) = TYPE_ERROR

\* C14 as stated: at construction the initial value is the fallback when the
\* store has no entry at prefix+key; for every text present there, the empty
\* string included, the initial value is the decoded text (fromJson of it with
\* a converter) or construction fails with the decode error.
C14_Original ==
    [][ConstructCall =>
          IF PresentBefore
          THEN IF Undecodable(lastOp'.conv, TextBefore)
               THEN lastOp'.result = Decoded(lastOp'.conv, TextBefore)[1]
               ELSE /\ lastOp'.result = "ok"
                    /\ lastOp'.v = Decoded(lastOp'.conv, TextBefore)
          ELSE /\ lastOp'.result = "ok"
               /\ lastOp'.v = NewBinding.fallback]_vars

\* C14 amended: the initial value is the fallback when the store has no entry
\* at prefix+key or the entry is the empty string; for every non-empty text
\* present there it is the decoded text (fromJson of it with a converter), or
\* construction fails with the decode error.
C14_InitialLoad ==
    [][ConstructCall =>
          IF PresentBefore /\ TextBefore # <<>>
          THEN IF Undecodable(lastOp'.conv, TextBefore)
               THEN /\ lastOp'.result = Decoded(lastOp'.conv, TextBefore)[1]
                    /\ lastOp'.b = 0
               ELSE /\ lastOp'.result = "ok"
                    /\ lastOp'.v = Decoded(lastOp'.conv, TextBefore)
          ELSE /\ lastOp'.result = "ok"
               /\ lastOp'.v = NewBinding.fallback]_vars

C14_Witness ==
    /\ lastOp.op = "construct"
    /\ lastOp.result = "ok"
    /\ nops = 1
    /\ lastOp.conv = "date"
    /\ lastOp.v = Obj(Date(1))
    /\ LastBinding.fallback = Obj(Date(0))
    /\ LastBinding.value = Obj(Date(1))

\* C15 as stated: if the text at prefix+key cannot be decoded (or fromJson
\* fails), construction fails: no container is created, no write-back handler
\* is attached and both Storages are left as they were.
C15_Original ==
    [][(ConstructCall /\ PresentBefore /\ Undecodable(lastOp'.conv, TextBefore)) =>
          /\ lastOp'.result # "ok"
          /\ lastOp'.b = 0
          /\ lastOp'.emitted = <<>>
          /\ binding' = binding
          /\ store' = store]_vars

\* C15 amended: if the non-empty text at prefix+key cannot be decoded (or
\* fromJson fails), construction fails with the decode error: no container is
\* created, no write-back handler runs and both Storages are left as they were.
\* (The empty string is never decoded: it is taken as no entry.)
C15_DecodeErrorLeavesStore ==
    [][(ConstructCall /\ PresentBefore /\ TextBefore # <<>>
          /\ Undecodable(lastOp'.conv, TextBefore)) =>
          /\ lastOp'.result \in {"SyntaxError", "TypeError"}
          /\ lastOp'.b = 0
          /\ lastOp'.emitted = <<>>
          /\ lastOp'.calls = <<[fn |-> "getItem", storage |-> lastOp'.storage,
                                key |-> STORAGE_KEYS_PREFIX \o lastOp'.key, ok |-> TRUE]>>
          /\ binding' = binding
          /\ store' = store]_vars

C15_Witness ==
    /\ lastOp.op = "construct"
    /\ lastOp.result = "SyntaxError"
    /\ lastOp.key = <<"k">>
    /\ lastOp.storage = "local"
    /\ lastOp.b = 0
    /\ (STORAGE_KEYS_PREFIX \o <<"k">>) \in DOMAIN store["local"]
    /\ store["local"][STORAGE_KEYS_PREFIX \o <<"k">>] = <<"{">>
    /\ \A b \in Bindings : ~binding[b].live

\* C16: if setItem throws while a published non-null value v is written back,
\* the container's current value is v all the same and both Storages are as
\* they were before the publish (the entry keeps its previous content);
\* nothing writes the value later on its own: a subscription changes no entry.
C16_FailedWriteLeavesStale ==
    [][/\ (/\ nops' = nops + 1
           /\ lastOp'.op = "publish"
           /\ ~IsNullish(lastOp'.v)
           /\ \E i \in DOMAIN lastOp'.calls : ~lastOp'.calls[i].ok) =>
              /\ binding'[lastOp'.b].value = lastOp'.v
              /\ store' = store
              /\ lastOp'.errors = <<"QuotaExceededError">>
       /\ (nops' = nops + 1 /\ lastOp'.op = "subscribe") =>
              /\ store' = store
              /\ binding' = binding]_vars

C16_Witness ==
    /\ lastOp.op = "subscribe"
    /\ LastBinding.failed
    /\ LastBinding.value = Str(<<"x">>)
    /\ LastBinding.key = <<"j">>
    /\ EntryPresent(LastBinding)
    /\ Entry(LastBinding) = <<"\"", "d", "\"">>
    /\ received[1] = <<Str(<<"x">>)>>

\* C17: last writer wins, with no coordination: also when two bindings have
\* the same Storage and key, a publish through one leaves the entry as that
\* publish alone makes it (the text of the publisher's resulting value after a
\* setItem, no entry after a removeItem) and changes neither the other
\* binding's current value nor what the other binding's observers received.
C17_LastWriterWins ==
    [][(nops' = nops + 1 /\ lastOp'.op = "publish") =>
          LET b == lastOp'.b
              r == binding'[b]
              k == STORAGE_KEYS_PREFIX \o r.key
              last == lastOp'.calls[Len(lastOp'.calls)]
          IN  /\ \A b2 \in Bindings \ {b} : binding'[b2] = binding[b2]
              /\ \A o \in Observers : observers[o] # b => received'[o] = received[o]
              /\ (last.fn = "setItem" /\ last.ok) =>
                    /\ k \in DOMAIN store'[r.storage]
                    /\ store'[r.storage][k] =
                          IF r.conv = "date" THEN Stringify(ToJson(r.value))
                          ELSE Stringify(r.value)
              /\ last.fn = "removeItem" => k \notin DOMAIN store'[r.storage]]_vars

C17_Witness ==
    /\ Published
    /\ lastOp.b = 1
    /\ lastOp.v = Str(<<"x">>)
    /\ binding[2].live
    /\ binding[2].storage = binding[1].storage
    /\ binding[2].key = binding[1].key
    /\ binding[2].value = Str(<<"d">>)
    /\ observers[1] = 2
    /\ received[1] = <<Str(<<"d">>)>>
    /\ EntryPresent(binding[2])
    /\ Entry(binding[2]) = <<"\"", "x", "\"">>

\* the number of getItem calls among the Storage calls of a call
RECURSIVE Reads(_)
Reads(calls) ==
    IF calls = <<>> THEN 0
    ELSE (IF calls[1].fn = "getItem" THEN 1 ELSE 0) + Reads(Tail(calls))

\* C18: a decorated property has one container, created with its single
\* Storage read when the decorator is applied and shared by every instance: a
\* value published through any instance's property is the current value of
\* that one container, which every instance reads; creating an instance makes
\* no Storage call and leaves every container and both Storages as they are,
\* also after the Storages were cleared.
C18_OneContainerPerProperty ==
    [][/\ (lastOp'.op = "new" /\ instances' # instances) =>
              /\ lastOp'.calls = <<>>
              /\ UNCHANGED <<store, binding, observers, received, lastWriter>>
       /\ (nops' = nops + 1 /\ lastOp'.op = "publish") =>
              /\ ~IsNullish(lastOp'.v) => binding'[lastOp'.b].value = lastOp'.v
              /\ \A b \in Bindings \ {lastOp'.b} : binding'[b] = binding[b]
       /\ (nops' = nops + 1 /\ lastOp'.op = "construct" /\ lastOp'.result = "ok") =>
              /\ Reads(lastOp'.calls) = 1
              /\ \A b \in Bindings \ {lastOp'.b} : binding'[b] = binding[b]]_vars

C18_Witness ==
    /\ lastOp.op = "new"
    /\ instances = Instances
    /\ binding[1].live
    /\ binding[1].key = <<"j">>
    /\ binding[1].value = Str(<<"x">>)
    /\ ~EntryPresent(binding[1])

====
